---- MODULE Spec2Model ----
(***************************************************************************)
(* Yield-Optimization-Agent: retry helper, protocol discovery (single and  *)
(* multi chain), ranking/truncation, transaction-bundle assembly, the      *)
(* token tools (lookup, search, input validation) and runYieldAgent.       *)
(***************************************************************************)
EXTENDS Integers, Sequences, FiniteSets, TLC

VARIABLES
    retry,      \* the activation record of one retryWithBackoff call
    world,      \* which data the discovery provider holds
    ensoKey,    \* whether ENSO_API_KEY is set
    tool,       \* the discover_protocols tool call: input, position, result
    tasks,      \* chain id -> the discoverProtocols call made for that chain
    mc,         \* the discoverProtocolsMultiChain call: position, result
    gen,        \* the generate_transaction tool call and its bundle assembly
    tok,        \* the get_token_info / search_token / validate_input tool call
    conv,       \* the runYieldAgent call: questions, position, responses
    score       \* two protocols that differ in TVL alone, and their safety scores

vars == <<retry, world, ensoKey, tool, tasks, mc, gen, tok, conv, score>>
discoverVars == <<world, ensoKey, tool, tasks, mc>>
agentVars == <<tok, conv, score>>

(***************************************************************************)
(* Bounds and program constants                                            *)
(***************************************************************************)
MaxRetriesArg == 4          \* largest maxRetries argument explored
DefaultMaxRetries == 3
DefaultInitialDelay == 1000

\* What one call of fn() can do: fulfil, or reject with one of the provider's
\* failure signals.
Outcomes == {"ok", "rateLimit", "quota", "other"}

NoError == [kind |-> "none", at |-> -1]
RetryFailed == [kind |-> "Retry failed", at |-> -1]

RECURSIVE Pow2(_)
Pow2(n) == IF n <= 0 THEN 1 ELSE 2 * Pow2(n - 1)

(***************************************************************************)
(* retryWithBackoff (src/common/utils.ts)                                  *)
(***************************************************************************)
RetryStart(maxRetries, initialDelay) ==
    [pc |-> "loop", attempt |-> 0, calls |-> 0, delays |-> <<>>,
     history |-> <<>>,     \* what each call of fn() did, in order (for the properties)
     lastError |-> NoError, thrown |-> NoError, result |-> -1,
     maxRetries |-> maxRetries, initialDelay |-> initialDelay]

\* for (...; attempt < maxRetries; ...) and the throw after the loop
RetryLoopTest(st) ==
    IF st.attempt < st.maxRetries
    THEN [st EXCEPT !.pc = "calling", !.calls = @ + 1]
    ELSE [st EXCEPT !.pc = "thrown",
                    !.thrown = IF st.lastError = NoError THEN RetryFailed
                               ELSE st.lastError]

\* a backoff that grows linearly instead of doubling
BackoffDelayLinear(st) == st.initialDelay * (st.attempt + 1)

BackoffDelay(st) == st.initialDelay * Pow2(st.attempt)

\* a helper that sleeps after every failed call, also the last one
RetriesAfterEveryFailure(st, outcome) == TRUE

RetriesAfter(st, outcome) == st.attempt < st.maxRetries - 1

\* the body of the loop once fn() has settled with `outcome`
RetrySettle(st, outcome) ==
    IF outcome = "ok"
    THEN [st EXCEPT !.pc = "returned", !.result = st.attempt,
                    !.history = Append(@, outcome)]
    ELSE LET failed == [st EXCEPT !.lastError = [kind |-> outcome, at |-> st.attempt],
                                  !.history = Append(@, outcome)]
         IN IF RetriesAfter(st, outcome)
            THEN [failed EXCEPT !.pc = "sleeping",
                                !.delays = Append(@, BackoffDelay(st))]
            ELSE [failed EXCEPT !.pc = "loop", !.attempt = @ + 1]

\* the timer of the backoff delay fires; attempt++
RetryWake(st) == [st EXCEPT !.pc = "loop", !.attempt = @ + 1]

RetryDone(st) == st.pc \in {"returned", "thrown"}

\* a whole call, given what the successive calls of fn() do
RECURSIVE RetryRun(_, _)
RetryRun(st, outs) ==
    CASE RetryDone(st) -> st
      [] st.pc = "loop" -> RetryRun(RetryLoopTest(st), outs)
      [] st.pc = "calling" -> RetryRun(RetrySettle(st, outs[st.attempt + 1]), outs)
      [] st.pc = "sleeping" -> RetryRun(RetryWake(st), outs)

retryWithBackoff(outs) ==
    RetryRun(RetryStart(DefaultMaxRetries, DefaultInitialDelay), outs)

(***************************************************************************)
(* The retry helper, step by step                                          *)
(***************************************************************************)
RetryIdle == [RetryStart(0, 0) EXCEPT !.pc = "idle"]

RetryInvoke ==
    /\ retry.pc = "idle"
    /\ \E m \in 0..MaxRetriesArg :
          retry' = RetryStart(m, DefaultInitialDelay)

RetryTest ==
    /\ retry.pc = "loop"
    /\ retry' = RetryLoopTest(retry)

RetryFnSettles ==
    /\ retry.pc = "calling"
    /\ \E o \in Outcomes : retry' = RetrySettle(retry, o)

RetryTimer ==
    /\ retry.pc = "sleeping"
    /\ retry' = RetryWake(retry)

RetryNext == (RetryInvoke \/ RetryTest \/ RetryFnSettles \/ RetryTimer) /\ UNCHANGED <<discoverVars, gen, agentVars>>

(***************************************************************************)
(* Decimal strings: Number.prototype.toString and BigInt(string)           *)
(***************************************************************************)
DigitChars == <<"0", "1", "2", "3", "4", "5", "6", "7", "8", "9">>

DigitValue(ch) == (CHOOSE i \in 1..10 : DigitChars[i] = ch) - 1

IsDigit(ch) == \E i \in 1..10 : DigitChars[i] = ch

RECURSIVE toString(_)
toString(n) ==
    IF n < 10 THEN <<DigitChars[n + 1]>>
    ELSE Append(toString(n \div 10), DigitChars[(n % 10) + 1])

SyntaxError == -1

\* BigInt(s): the integer a decimal string denotes, 0n for "", or a SyntaxError
RECURSIVE BigInt(_)
BigInt(s) ==
    IF s = << >> THEN 0
    ELSE LET ch == s[Len(s)]
             front == BigInt(SubSeq(s, 1, Len(s) - 1))
         IN IF ~IsDigit(ch) \/ front = SyntaxError THEN SyntaxError
            ELSE 10 * front + DigitValue(ch)

(***************************************************************************)
(* Chains, vaults and the data the discovery provider holds                *)
(***************************************************************************)
MaxVaultsPerChain == 3      \* vaults the provider reports per chain ("dense")

SUPPORTED_CHAINS == <<1, 42161, 10, 137, 8453, 43114, 56>>
ChainIds == {SUPPORTED_CHAINS[i] : i \in 1..Len(SUPPORTED_CHAINS)}

getChainById(chainId) == chainId \in ChainIds

validateChain(chainId) == chainId \in ChainIds

ChainIndex(c) == CHOOSE i \in 1..Len(SUPPORTED_CHAINS) : SUPPORTED_CHAINS[i] = c

\* An address is <<identity, casing>>; toLowerCase forgets the casing.
TokenAddress == <<0, "lower">>
toLowerCase(a) == <<a[1], "lower">>

TRUSTED_PROTOCOLS == {"aave-v3", "compound-v3", "lido"}

Worlds == {"empty", "sparse", "dense"}

\* the `apy` field of a provider token: a number, a string, or absent
ApyNumber(n) == [type |-> "number", number |-> n, string |-> << >>]
ApyString(s) == [type |-> "string", number |-> 0, string |-> s]
ApyMissing == [type |-> "undefined", number |-> 0, string |-> << >>]

NaN == -1           \* stands for NaN in comparisons: NaN > 0 is false

\* the value of the longest prefix of s that is a decimal numeral
RECURSIVE NumeralPrefix(_, _)
NumeralPrefix(s, acc) ==
    IF s = << >> \/ ~IsDigit(Head(s)) THEN acc
    ELSE NumeralPrefix(Tail(s), 10 * acc + DigitValue(Head(s)))

parseFloat(s) == IF s = << >> \/ ~IsDigit(Head(s)) THEN NaN ELSE NumeralPrefix(s, 0)

\* typeof token.apy === "string" ? parseFloat(token.apy) : token.apy || 0
ApyValue(token) ==
    IF token.apy.type = "string" THEN parseFloat(token.apy.string)
    ELSE IF token.apy.type = "undefined" THEN 0
    ELSE token.apy.number

RawVault(id, casing, apy, tvl, project) ==
    [address |-> <<id, casing>>, apy |-> apy, tvl |-> tvl, project |-> project]

\* "dense": every chain holds MaxVaultsPerChain vaults with distinct TVLs
\* 1 .. 7 * MaxVaultsPerChain ($M); only the two smallest are audited protocols.
DenseVault(k, i) ==
    LET tvl == MaxVaultsPerChain * (k - 1) + i
    IN RawVault(100 * k + i, "mixed", ApyNumber(((7 * k + 3 * i) % 5) + 1), tvl,
                IF tvl <= 2 THEN "aave-v3" ELSE "")

\* "sparse": Ethereum reports the bare token (in checksum casing), vaults
\* whose APY is 0, absent or not a numeral, and three real vaults; Polygon one
\* small unknown vault; Base only the bare token; the other chains nothing.
SparseVaults(c) ==
    CASE c = 1 -> << RawVault(0, "mixed", ApyNumber(3), 900, ""),
                     RawVault(11, "mixed", ApyNumber(0), 500, "lido"),
                     RawVault(12, "lower", ApyNumber(5), 150, "aave-v3"),
                     RawVault(13, "mixed", ApyNumber(9), 40, ""),
                     RawVault(14, "mixed", ApyString(<<"4", "2", "%">>), 30, "lido"),
                     RawVault(15, "mixed", ApyMissing, 700, "aave-v3"),
                     RawVault(16, "lower", ApyString(<<"n", "/", "a">>), 60, ""),
                     RawVault(17, "lower", ApyString(<<"0">>), 80, "") >>
      [] c = 137 -> << RawVault(21, "mixed", ApyNumber(7), 5, "") >>
      [] c = 8453 -> << RawVault(0, "mixed", ApyNumber(2), 900, "") >>
      [] OTHER -> << >>

\* client.getTokenData(...).data for a chain
ProviderData(w, c) ==
    CASE w = "empty" -> << >>
      [] w = "sparse" -> SparseVaults(c)
      [] w = "dense" -> [i \in 1..MaxVaultsPerChain |-> DenseVault(ChainIndex(c), i)]

(***************************************************************************)
(* discoverProtocols (enso-service)                                        *)
(***************************************************************************)
NoTask == [status |-> "unissued", queried |-> FALSE, error |-> "none", value |-> << >>]

\* the loop body's test: not the token itself, APY > 0
\* the same test without toLowerCase on either side
IsVaultCaseSensitive(token) ==
    /\ token.address # TokenAddress
    /\ ApyValue(token) > 0

IsVault(token) ==
    /\ toLowerCase(token.address) # toLowerCase(TokenAddress)
    /\ ApyValue(token) > 0

ToProtocolVault(token, chainId) ==
    [address |-> token.address,
     protocol |-> IF token.project = "" THEN "unknown" ELSE token.project,
     chainId |-> chainId, apy |-> ApyValue(token), tvl |-> token.tvl, safetyScore |-> -1]

FilterVaults(data, chainId) ==
    LET kept == SelectSeq(data, IsVault)
    IN [i \in 1..Len(kept) |-> ToProtocolVault(kept[i], chainId)]

\* the call up to its first await: the validations and the client
DiscoverCall(tokenValid, chainId, key) ==
    IF ~tokenValid THEN [NoTask EXCEPT !.status = "rejected", !.error = "Invalid token address"]
    ELSE IF ~getChainById(chainId)
    THEN [NoTask EXCEPT !.status = "rejected", !.error = "Unsupported chain ID"]
    ELSE IF ~key
    THEN [NoTask EXCEPT !.status = "rejected", !.error = "Enso API key not found"]
    ELSE [NoTask EXCEPT !.status = "pending", !.queried = TRUE]

\* the rest of the call once retryWithBackoff(getTokenData) has settled as r
DiscoverSettle(t, r, data, chainId) ==
    IF r.pc = "thrown"
    THEN [t EXCEPT !.status = "rejected", !.error = r.thrown.kind]
    ELSE [t EXCEPT !.status = "fulfilled", !.value = FilterVaults(data, chainId)]

\* what the successive getTokenData calls of one chain do
OutcomeSeqs == [1..DefaultMaxRetries -> {"ok", "rateLimit"}]

(***************************************************************************)
(* discoverProtocolsMultiChain (enso-service)                              *)
(***************************************************************************)
\* a per-chain handler that lets the rejection through
CaughtResultRethrow(t) == t

\* .catch((error) => { logger.warn(...); return [] })
CaughtResult(t) ==
    IF t.status = "rejected"
    THEN [t EXCEPT !.status = "fulfilled", !.value = << >>]
    ELSE t

Promises == [i \in 1..Len(SUPPORTED_CHAINS) |-> CaughtResult(tasks[SUPPORTED_CHAINS[i]])]

\* Promise.race in place of Promise.all: the first settled promise decides
PromiseRaceSettled(ps) == \E i \in 1..Len(ps) : ps[i].status \in {"fulfilled", "rejected"}

\* Promise.all settles when every promise is fulfilled or one is rejected
PromiseAllSettled(ps) ==
    \/ \A i \in 1..Len(ps) : ps[i].status = "fulfilled"
    \/ \E i \in 1..Len(ps) : ps[i].status = "rejected"

PromiseAllRejected(ps) == \E i \in 1..Len(ps) : ps[i].status = "rejected"

\* a flatten that pushes the last result first
RECURSIVE FlattenReversed(_)
FlattenReversed(results) ==
    IF results = << >> THEN << >>
    ELSE FlattenReversed(Tail(results)) \o Head(results).value

RECURSIVE Flatten(_)
Flatten(results) ==
    IF results = << >> THEN << >>
    ELSE Head(results).value \o Flatten(Tail(results))

\* position after the map callback has run for chain number i
AfterIssue(i) == IF i = Len(SUPPORTED_CHAINS) THEN "awaiting" ELSE "mapping"

\* reordered: a per-chain query has settled while the query of a chain earlier
\* in SUPPORTED_CHAINS was still pending (kept for the properties)
NoMc == [pc |-> "idle", next |-> 1, result |-> << >>, reordered |-> FALSE]

\* chain c settles before a chain that was mapped before it
SettlesOutOfOrder(c) ==
    \E d \in ChainIds : ChainIndex(d) < ChainIndex(c) /\ tasks[d].status = "pending"

(***************************************************************************)
(* Safety scoring and ranking (safety-service)                             *)
(***************************************************************************)
Clamp(x) == IF x < 0 THEN 0 ELSE IF x > 10 THEN 10 ELSE x

\* a TVL signal that rewards small pools
TvlSignalInverted(tvl) == IF tvl >= 100 THEN -2 ELSE IF tvl >= 10 THEN 0 ELSE 3

TvlSignal(tvl) == IF tvl >= 100 THEN 3 ELSE IF tvl >= 10 THEN 0 ELSE -2

ReputationSignal(protocol) == IF protocol \in TRUSTED_PROTOCOLS THEN 2 ELSE -1

evaluateProtocolSafety(p) == Clamp(5 + TvlSignal(p.tvl) + ReputationSignal(p.protocol))

\* TVL in millions of dollars, around the two tier boundaries
TvlInputs == {0, 1, 9, 10, 11, 99, 100, 101, 1000}
ProtocolInputs == TRUSTED_PROTOCOLS \cup {"unknown"}

NoScore == [pc |-> "idle", lower |-> 0, higher |-> 0, protocol |-> "unknown",
            lowerScore |-> -1, higherScore |-> -1]

\* the two protocols of `score` are evaluated
EvaluateSafety ==
    /\ score.pc = "idle"
    /\ score' = [score EXCEPT
                    !.pc = "scored",
                    !.lowerScore = evaluateProtocolSafety([tvl |-> score.lower,
                                                          protocol |-> score.protocol]),
                    !.higherScore = evaluateProtocolSafety([tvl |-> score.higher,
                                                           protocol |-> score.protocol])]
    /\ UNCHANGED <<retry, discoverVars, gen, tok, conv>>

Slice(s, n) == SubSeq(s, 1, IF n < Len(s) THEN n ELSE Len(s))

\* stable insertion, as Array.prototype.sort is stable
RECURSIVE InsertByTvl(_, _)
InsertByTvl(x, s) ==
    IF s = << >> THEN <<x>>
    ELSE IF x.tvl > Head(s).tvl THEN <<x>> \o s
    ELSE <<Head(s)>> \o InsertByTvl(x, Tail(s))

RECURSIVE SortByTvl(_)
SortByTvl(s) ==
    IF s = << >> THEN << >>
    ELSE InsertByTvl(s[Len(s)], SortByTvl(SubSeq(s, 1, Len(s) - 1)))

\* a comparator that looks at the safety score alone
SaferOnly(x, y) == x.safetyScore > y.safetyScore

SaferOrRicher(x, y) ==
    \/ x.safetyScore > y.safetyScore
    \/ x.safetyScore = y.safetyScore /\ x.apy > y.apy

RECURSIVE InsertBySafety(_, _)
InsertBySafety(x, s) ==
    IF s = << >> THEN <<x>>
    ELSE IF SaferOrRicher(x, Head(s)) THEN <<x>> \o s
    ELSE <<Head(s)>> \o InsertBySafety(x, Tail(s))

RECURSIVE sortProtocolsBySafetyAndYield(_)
sortProtocolsBySafetyAndYield(s) ==
    IF s = << >> THEN << >>
    ELSE InsertBySafety(s[Len(s)],
                        sortProtocolsBySafetyAndYield(SubSeq(s, 1, Len(s) - 1)))

\* the top maxProtocols by TVL, each with its score
addSafetyScores(protocols, maxProtocols) ==
    LET top == Slice(SortByTvl(protocols), maxProtocols)
    IN [i \in 1..Len(top) |-> [top[i] EXCEPT !.safetyScore = evaluateProtocolSafety(top[i])]]

(***************************************************************************)
(* discover_protocols (tools)                                              *)
(***************************************************************************)
maxProtocolsToEvaluate == 20
maxProtocolsToReturn == 15

NoOut == [kind |-> "none", error |-> "", cause |-> "", suggestion |-> FALSE,
          protocols |-> << >>, count |-> 0, totalFound |-> -1]

ErrorOut(error, cause) == [NoOut EXCEPT !.kind = "error", !.error = error, !.cause = cause]

\* the tool as it limits what it evaluates and returns
RankAndTruncate(protocols) ==
    LET top == Slice(sortProtocolsBySafetyAndYield(
                         addSafetyScores(protocols, maxProtocolsToEvaluate)),
                     maxProtocolsToReturn)
    IN [NoOut EXCEPT !.kind = "success", !.protocols = top, !.count = Len(top),
                     !.totalFound = Len(protocols)]

\* the second definition of the tool: addSafetyScores(protocols), no slice
RankAll(protocols) ==
    LET sorted == sortProtocolsBySafetyAndYield(addSafetyScores(protocols, Len(protocols)))
    IN [NoOut EXCEPT !.kind = "success", !.protocols = sorted, !.count = Len(sorted)]

\* the tool without its `protocols.length === 0` branch
ToolResultEmptySuccess(version, protocols) ==
    IF version = "limiting" THEN RankAndTruncate(protocols) ELSE RankAll(protocols)

\* the tool from the point where `protocols` is known
ToolResult(version, protocols) ==
    IF Len(protocols) = 0
    THEN [ErrorOut("No staking protocols found", "") EXCEPT !.suggestion = TRUE]
    ELSE IF version = "limiting" THEN RankAndTruncate(protocols)
    ELSE RankAll(protocols)

\* catch (error): "Failed to discover protocols: " + error.message
ToolCatch(message) == ErrorOut("Failed to discover protocols", message)

ToolVersions == {"limiting", "unlimited"}
ChainIdInputs == {0, 1, 137, 8453, 999}    \* 0: no chainId given; 999: unsupported

NoTool == [pc |-> "idle", tokenValid |-> TRUE, multiChain |-> TRUE, chainId |-> 0,
           version |-> "limiting", out |-> NoOut]

NoTasks == [c \in ChainIds |-> NoTask]

\* the tool is called; it runs to its first await or to an early return
ToolCall ==
    /\ tool.pc = "idle"
    /\ \E tv \in BOOLEAN, multi \in BOOLEAN, cid \in ChainIdInputs, ver \in ToolVersions :
          LET in == [tool EXCEPT !.tokenValid = tv, !.multiChain = multi,
                                 !.chainId = cid, !.version = ver]
          IN IF multi
             THEN /\ tool' = [in EXCEPT !.pc = "multi"]
                  /\ mc' = [mc EXCEPT !.pc = "mapping"]
                  /\ UNCHANGED tasks
             ELSE IF cid = 0
             THEN /\ tool' = [in EXCEPT !.pc = "returned",
                                        !.out = ErrorOut("chainId is required", "")]
                  /\ UNCHANGED <<mc, tasks>>
             ELSE IF ~validateChain(cid)
             THEN /\ tool' = [in EXCEPT !.pc = "returned",
                                        !.out = ErrorOut("Invalid chain", "")]
                  /\ UNCHANGED <<mc, tasks>>
             ELSE /\ tool' = [in EXCEPT !.pc = "single"]
                  /\ tasks' = [tasks EXCEPT ![cid] = DiscoverCall(tv, cid, ensoKey)]
                  /\ UNCHANGED mc
    /\ UNCHANGED <<world, ensoKey, retry, gen, agentVars>>

\* SUPPORTED_CHAINS.map: the callback runs for the next chain
MCIssue ==
    /\ mc.pc = "mapping"
    /\ LET c == SUPPORTED_CHAINS[mc.next]
       IN tasks' = [tasks EXCEPT ![c] = DiscoverCall(tool.tokenValid, c, ensoKey)]
    /\ mc' = [mc EXCEPT !.pc = AfterIssue(mc.next), !.next = @ + 1]
    /\ UNCHANGED <<world, ensoKey, tool, retry, gen, agentVars>>

\* the provider query of one chain settles, after its retries
TaskSettle ==
    /\ \E c \in ChainIds :
          /\ tasks[c].status = "pending"
          /\ \E outs \in OutcomeSeqs :
                tasks' = [tasks EXCEPT ![c] =
                            DiscoverSettle(tasks[c], retryWithBackoff(outs),
                                           ProviderData(world, c), c)]
          /\ mc' = [mc EXCEPT !.reordered = @ \/ SettlesOutOfOrder(c)]
    /\ UNCHANGED <<world, ensoKey, tool, retry, gen, agentVars>>

\* await Promise.all(promises) completes; the results are flattened
MCReturn ==
    /\ mc.pc = "awaiting"
    /\ PromiseAllSettled(Promises)
    /\ mc' = IF PromiseAllRejected(Promises)
             THEN [mc EXCEPT !.pc = "threw"]
             ELSE [mc EXCEPT !.pc = "returned", !.result = Flatten(Promises)]
    /\ UNCHANGED <<world, ensoKey, tool, tasks, retry, gen, agentVars>>

ToolReturnMulti ==
    /\ tool.pc = "multi"
    /\ mc.pc \in {"returned", "threw"}
    /\ tool' = [tool EXCEPT !.pc = "returned",
                            !.out = IF mc.pc = "threw" THEN ToolCatch("rejected")
                                    ELSE ToolResult(tool.version, mc.result)]
    /\ UNCHANGED <<world, ensoKey, tasks, mc, retry, gen, agentVars>>

ToolReturnSingle ==
    /\ tool.pc = "single"
    /\ tasks[tool.chainId].status \in {"fulfilled", "rejected"}
    /\ LET t == tasks[tool.chainId]
       IN tool' = [tool EXCEPT !.pc = "returned",
                               !.out = IF t.status = "rejected" THEN ToolCatch(t.error)
                                       ELSE ToolResult(tool.version, t.value)]
    /\ UNCHANGED <<world, ensoKey, tasks, mc, retry, gen, agentVars>>

DiscoverNext ==
    \/ ToolCall
    \/ MCIssue
    \/ TaskSettle
    \/ MCReturn
    \/ ToolReturnMulti
    \/ ToolReturnSingle

(***************************************************************************)
(* Gas figures of provider responses                                       *)
(***************************************************************************)
\* the `gas` field of a provider response: a number or a string
GasNumber(n) == [isString |-> FALSE, number |-> n, string |-> << >>]
GasString(s) == [isString |-> TRUE, number |-> 0, string |-> s]

\* typeof gas === "string" ? gas : gas.toString()
GasLimitOf(gas) == IF gas.isString THEN gas.string ELSE toString(gas.number)

ApprovalGasReports == {GasNumber(46000), GasString(<<"5", "0", "0">>),
                       GasString(<< >>), GasString(<<"1", ".", "5">>)}
DepositGasReports == {GasNumber(210000), GasNumber(0), GasString(<<"9", "9">>)}

(***************************************************************************)
(* checkApprovalNeeded and generateTransactionBundle (enso-service)        *)
(***************************************************************************)
SAFETY_WARNING == "CRITICAL: This transaction object was generated by an AI agent."

NoTx == [type |-> "none", gasLimit |-> << >>, chainId |-> 0, amount |-> << >>,
         safetyWarning |-> ""]

ApprovalTransaction(gas, chainId, amount) ==
    [type |-> "approve", gasLimit |-> GasLimitOf(gas), chainId |-> chainId,
     amount |-> toString(amount), safetyWarning |-> SAFETY_WARNING]

\* a deposit transaction built without its disclosure
DepositTransactionUndisclosed(gas, chainId, amount) ==
    [type |-> "deposit", gasLimit |-> GasLimitOf(gas), chainId |-> chainId,
     amount |-> toString(amount), safetyWarning |-> ""]

DepositTransaction(gas, chainId, amount) ==
    [type |-> "deposit", gasLimit |-> GasLimitOf(gas), chainId |-> chainId,
     amount |-> toString(amount), safetyWarning |-> SAFETY_WARNING]

NoCheck == [approvalNeeded |-> FALSE, approvalTransaction |-> NoTx, error |-> "", message |-> ""]

\* checkApprovalNeeded once retryWithBackoff(getApprovalData) has settled as r
\* a check whose catch returns nothing about the failure
ApprovalResultSilent(r, gas, chainId, amount) ==
    IF r.pc = "thrown" THEN NoCheck
    ELSE [NoCheck EXCEPT !.approvalNeeded = TRUE,
                         !.approvalTransaction = ApprovalTransaction(gas, chainId, amount),
                         !.message = "Approval transaction required before deposit"]

ApprovalResult(r, gas, chainId, amount) ==
    IF r.pc = "thrown"
    THEN [NoCheck EXCEPT !.error = "Failed to check approval",
                         !.message = "Could not verify approval status"]
    ELSE [NoCheck EXCEPT !.approvalNeeded = TRUE,
                         !.approvalTransaction = ApprovalTransaction(gas, chainId, amount),
                         !.message = "Approval transaction required before deposit"]

NoBundle == [approvalTransaction |-> NoTx, depositTransaction |-> NoTx,
             executionOrder |-> << >>, hasTotalGasEstimate |-> FALSE,
             totalGasEstimate |-> << >>, thrown |-> FALSE]

\* a composition that never takes the approval branch
IncludesApprovalNever(approvalCheck) == FALSE

\* approvalCheck.approvalNeeded && approvalCheck.approvalTransaction
IncludesApproval(approvalCheck) ==
    approvalCheck.approvalNeeded /\ approvalCheck.approvalTransaction # NoTx

\* the two steps pushed in the wrong order
ExecutionOrderDepositFirst(withApproval) ==
    IF withApproval THEN <<"deposit", "approve">> ELSE <<"deposit">>

ExecutionOrder(withApproval) ==
    IF withApproval THEN <<"approve", "deposit">> ELSE <<"deposit">>

\* gasLimit ? BigInt(gasLimit) : BigInt(0)
GasOf(tx) == IF tx.gasLimit # << >> THEN BigInt(tx.gasLimit) ELSE 0

\* a total that forgets the deposit
TotalGasApprovalOnly(approvalGas, depositGas) == approvalGas

TotalGas(approvalGas, depositGas) == approvalGas + depositGas

\* Step 3 of generateTransactionBundle
ComposeBundle(approvalCheck, depositTransaction) ==
    IF IncludesApproval(approvalCheck)
    THEN LET approvalGas == GasOf(approvalCheck.approvalTransaction)
             depositGas == GasOf(depositTransaction)
         IN IF approvalGas = SyntaxError \/ depositGas = SyntaxError
            THEN [NoBundle EXCEPT !.thrown = TRUE]
            ELSE [NoBundle EXCEPT
                    !.approvalTransaction = approvalCheck.approvalTransaction,
                    !.depositTransaction = depositTransaction,
                    !.executionOrder = ExecutionOrder(TRUE),
                    !.hasTotalGasEstimate = TRUE,
                    !.totalGasEstimate = toString(TotalGas(approvalGas, depositGas))]
    ELSE [NoBundle EXCEPT !.depositTransaction = depositTransaction,
                          !.executionOrder = ExecutionOrder(FALSE)]

(***************************************************************************)
(* generate_transaction (tools)                                            *)
(***************************************************************************)
AmountInputs == {-1, 0, 1, 100}
GenChainInputs == {1, 137}
\* BigInt("999999999999999999999999999") in the source: a placeholder above
\* every amount explored here, as is this value, which fits TLC's integers
MaxBalancePlaceholder == 2000000000

\* a validation that lets a zero amount through
validateAmountNonNegative(amount, balance) == amount >= 0 /\ amount <= balance

validateAmount(amount, balance) == amount > 0 /\ amount <= balance

\* the `error` of validateAmount's result
validateAmountError(amount, balance) ==
    IF amount <= 0 THEN "Amount must be positive" ELSE "Insufficient balance"

TOOL_WARNING == "CRITICAL: This transaction object was generated by an AI agent."

NoGenOut == [kind |-> "none", error |-> "", bundle |-> NoBundle, warning |-> ""]

NoGen == [pc |-> "idle", amount |-> 100, chainId |-> 1, userValid |-> TRUE, tokenValid |-> TRUE,
          protocolValid |-> TRUE, approvalCheck |-> NoCheck,
          depositTransaction |-> NoTx, requests |-> << >>,
          approvalCalls |-> 0, approvalThrown |-> FALSE,
          depositCalls |-> 0, depositThrown |-> FALSE, out |-> NoGenOut]

GenError(error) == [NoGenOut EXCEPT !.kind = "error", !.error = error]

GenSuccess(bundle) ==
    [NoGenOut EXCEPT !.kind = "success", !.bundle = bundle, !.warning = TOOL_WARNING]

\* a tool that, when the deposit request fails, returns what it has so far
BundleOutcomePartial(r, bundle) ==
    IF bundle.thrown THEN GenError("Failed to generate transaction")
    ELSE IF r.pc = "thrown"
    THEN GenSuccess([bundle EXCEPT !.depositTransaction = NoTx,
                                   !.executionOrder = SelectSeq(@, LAMBDA x : x = "approve")])
    ELSE GenSuccess(bundle)

\* the tool's return once the deposit request has settled as r: a rejection
\* (of the request, or of BigInt in the composition) reaches the tool's catch
BundleOutcome(r, bundle) ==
    IF r.pc = "thrown" \/ bundle.thrown
    THEN GenError("Failed to generate transaction")
    ELSE GenSuccess(bundle)

\* a bundle assembly that checks the format of the user address alone
AddressesValidUserOnly(g) == g.userValid

AddressesValid(g) == g.userValid /\ g.tokenValid /\ g.protocolValid

\* the tool is called; it runs to an early return or to the approval request
GenCall ==
    /\ gen.pc = "idle"
    /\ \E a \in AmountInputs, c \in GenChainInputs, u \in BOOLEAN, t \in BOOLEAN, p \in BOOLEAN :
          LET in == [gen EXCEPT !.amount = a, !.chainId = c, !.userValid = u, !.tokenValid = t,
                                !.protocolValid = p]
          IN gen' = IF ~validateAmount(a, MaxBalancePlaceholder)
                    THEN [in EXCEPT !.pc = "returned", !.out = GenError(validateAmountError(a, MaxBalancePlaceholder))]
                    ELSE IF ~AddressesValid(in)
                    THEN [in EXCEPT !.pc = "returned",
                             !.out = GenError("Failed to generate transaction: Invalid address format")]
                    ELSE IF ~ensoKey
                    THEN [in EXCEPT !.pc = "returned",
                             !.out = GenError("Failed to generate transaction: Enso API key not found")]
                    ELSE [in EXCEPT !.pc = "approval", !.requests = Append(@, "approval")]
    /\ UNCHANGED <<retry, discoverVars, agentVars>>

\* getApprovalData settles after its retries; the deposit request is issued
ApprovalSettles ==
    /\ gen.pc = "approval"
    /\ \E outs \in OutcomeSeqs, gas \in ApprovalGasReports :
          LET r == retryWithBackoff(outs)
          IN gen' = [gen EXCEPT !.pc = "deposit",
                                !.approvalCheck = ApprovalResult(r, gas, gen.chainId, gen.amount),
                                !.approvalCalls = r.calls,
                                !.approvalThrown = (r.pc = "thrown"),
                                !.requests = Append(@, "deposit")]
    /\ UNCHANGED <<retry, discoverVars, agentVars>>

\* getBundleData settles after its retries; the bundle is composed and returned
DepositSettles ==
    /\ gen.pc = "deposit"
    /\ \E outs \in OutcomeSeqs, gas \in DepositGasReports :
          LET r == retryWithBackoff(outs)
              tx == DepositTransaction(gas, gen.chainId, gen.amount)
              bundle == ComposeBundle(gen.approvalCheck, tx)
          IN gen' = [gen EXCEPT !.pc = "returned",
                                !.depositTransaction = IF r.pc = "thrown" THEN NoTx ELSE tx,
                                !.depositCalls = r.calls,
                                !.depositThrown = (r.pc = "thrown"),
                                !.out = BundleOutcome(r, bundle)]
    /\ UNCHANGED <<retry, discoverVars, agentVars>>

GenNext == GenCall \/ ApprovalSettles \/ DepositSettles

(***************************************************************************)
(* Token resolution (api) and the token tools (tools)                      *)
(***************************************************************************)
MaxCoins == 3            \* coins the metadata provider's search reports
TopResults == 10         \* searchResults.coins.slice(0, 10)

ChainNames == <<"ethereum", "arbitrum", "optimism", "polygon", "base", "avalanche", "bsc">>

\* the id of the chain of that name; 0 stands for `undefined`
getChainByName(name) ==
    IF \E i \in 1..Len(ChainNames) : ChainNames[i] = name
    THEN SUPPORTED_CHAINS[CHOOSE i \in 1..Len(ChainNames) : ChainNames[i] = name]
    ELSE 0

TokenRefs == {"symbol", "address", "malformed", "empty"}
ChainIdHints == {0, 1, 999}                  \* 0: no chainId; 999: unsupported
ChainNameHints == {"", "polygon", "mars"}    \* "": no chainName; "mars": unknown
InputTypes == {"token", "chain", "amount"}

isAddress(ref) == ref = "address"

validateTokenInput(ref) == ref \in {"symbol", "address"}

\* one entry of coinData.platforms
Platform(name, hasAddress) == [platform |-> name, address |-> hasAddress]

\* what coins.id.get reports for coin k
CoinPlatforms(k) ==
    CASE k % 3 = 1 -> << Platform("solana", TRUE), Platform("ethereum", TRUE),
                         Platform("polygon", TRUE) >>
      [] k % 3 = 2 -> << Platform("polygon", TRUE) >>
      [] OTHER -> << Platform("ethereum", FALSE), Platform("solana", TRUE) >>

\* the coins of a search response: ascending subsequences of 1..MaxCoins
RECURSIVE SeqOfSet(_)
SeqOfSet(S) ==
    IF S = {} THEN << >>
    ELSE LET m == CHOOSE x \in S : \A y \in S : x <= y
         IN <<m>> \o SeqOfSet(S \ {m})

SearchResponses == {SeqOfSet(S) : S \in SUBSET (1..MaxCoins)}

NoToken == [coin |-> 0, chainId |-> 0, allChains |-> << >>]

\* filter(([platform, address]) => address && getChainByName(platform))
IsSupportedEntry(e) == e.address /\ getChainByName(e.platform) # 0

SupportedEntries(platforms) == SelectSeq(platforms, IsSupportedEntry)

\* allChains: supportedChainEntries.map(...)
AllChainsOf(entries) == [i \in 1..Len(entries) |-> getChainByName(entries[i].platform)]

\* the TokenInfo pushed for coin k: the first supported chain is the primary
ToTokenInfo(k, entries) ==
    [coin |-> k, chainId |-> getChainByName(entries[1].platform),
     allChains |-> AllChainsOf(entries)]

\* the loop over topResults; a coin whose detail request fails is skipped
RECURSIVE TokenInfosOf(_, _)
TokenInfosOf(top, failing) ==
    IF top = << >> THEN << >>
    ELSE LET k == Head(top)
             entries == SupportedEntries(CoinPlatforms(k))
             rest == TokenInfosOf(Tail(top), failing)
         IN IF k \in failing \/ Len(entries) = 0 THEN rest
            ELSE <<ToTokenInfo(k, entries)>> \o rest

\* results of the api functions: a value, null, or a thrown error
ApiNull == [kind |-> "null", error |-> "", token |-> NoToken, tokens |-> << >>]
ApiThrown(error) == [ApiNull EXCEPT !.kind = "thrown", !.error = error]
ApiSingle(token) == [ApiNull EXCEPT !.kind = "single", !.token = token]
ApiArray(tokens) == [ApiNull EXCEPT !.kind = "array", !.tokens = tokens]

\* searchToken, r being how retryWithBackoff(search.get) settled
searchToken(r, coins, failing) ==
    IF r.pc = "thrown" THEN ApiThrown("Failed to search for token")
    ELSE IF Len(coins) = 0 THEN ApiArray(<< >>)
    ELSE ApiArray(TokenInfosOf(Slice(coins, TopResults), failing))

\* requests searchToken makes of the provider
SearchRequests(r, coins) ==
    IF r.pc = "thrown" THEN 1 ELSE 1 + Len(Slice(coins, TopResults))

\* getTokenByAddress, r being how retryWithBackoff(coins.contract.get) settled
getTokenByAddress(chainId, r, k) ==
    IF ~getChainById(chainId) \/ r.pc = "thrown" THEN ApiNull
    ELSE ApiSingle([coin |-> k, chainId |-> chainId,
                    allChains |-> AllChainsOf(SupportedEntries(CoinPlatforms(k)))])

\* chainId || (chainName ? getChainByName(chainName)?.id : undefined)
ResolvedChainId(chainId, chainName) ==
    IF chainId # 0 THEN chainId
    ELSE IF chainName # "" THEN getChainByName(chainName) ELSE 0

\* an address branch that looks the token up on Ethereum when no chain is given
AddressBranchDefaultChain(chainId, chainName) ==
    IF chainId = 0 /\ chainName = "" THEN "lookup"
    ELSE IF ResolvedChainId(chainId, chainName) = 0 THEN "Invalid chain specified"
    ELSE "lookup"

\* getTokenInfo, address branch, up to the call of getTokenByAddress
AddressBranch(chainId, chainName) ==
    IF chainId = 0 /\ chainName = ""
    THEN "Chain must be provided when using token address"
    ELSE IF ResolvedChainId(chainId, chainName) = 0 THEN "Invalid chain specified"
    ELSE "lookup"

\* a search branch that always settles on the first match
FromSearchFirst(sr) ==
    IF sr.kind = "thrown" THEN sr
    ELSE IF Len(sr.tokens) = 0 THEN ApiNull
    ELSE ApiSingle(sr.tokens[1])

\* getTokenInfo, search branch, from the result of searchToken
FromSearch(sr) ==
    IF sr.kind = "thrown" THEN sr
    ELSE IF Len(sr.tokens) = 0 THEN ApiNull
    ELSE IF Len(sr.tokens) = 1 THEN ApiSingle(sr.tokens[1])
    ELSE sr

NoTokOut == [kind |-> "none", error |-> "", caught |-> FALSE, suggestsAddress |-> FALSE,
             requiresChain |-> FALSE, requiresConfirmation |-> FALSE,
             token |-> NoToken, tokens |-> << >>, allChains |-> << >>,
             count |-> 0, valid |-> FALSE]

TokError(error) == [NoTokOut EXCEPT !.kind = "error", !.error = error]

NoTok == [pc |-> "idle", op |-> "none", version |-> "limiting", ref |-> "symbol",
          chainId |-> 0, chainName |-> "", inputType |-> "token", requests |-> 0,
          searchFailed |-> FALSE, coins |-> << >>, failing |-> {}, out |-> NoTokOut]

TokThrown(error) == [NoTokOut EXCEPT !.kind = "thrown", !.error = error]

\* a tool body without its try/catch
ToolUncaught(out) == out

\* catch (error) { return JSON.stringify({ error: `Failed to ...: ${message}` }) }
ToolCaught(out) ==
    IF out.kind = "thrown" THEN [out EXCEPT !.kind = "error", !.caught = TRUE] ELSE out

\* getTokenInfoTool from the result of getTokenInfo; the first definition of
\* the tool ("limiting") has the branch that lists all chains
TokenResult(version, isTokenAddress, res) ==
    IF res.kind = "thrown" THEN TokThrown(res.error)
    ELSE IF res.kind = "null"
    THEN [TokError("Token not found") EXCEPT !.suggestsAddress = TRUE]
    ELSE IF res.kind = "array"
    THEN [NoTokOut EXCEPT !.kind = "multipleMatches", !.tokens = res.tokens]
    ELSE IF version = "limiting" /\ ~isTokenAddress /\ Len(res.token.allChains) > 0
    THEN [NoTokOut EXCEPT !.kind = "success",
                          !.token = [res.token EXCEPT !.chainId = 0, !.allChains = << >>],
                          !.allChains = res.token.allChains,
                          !.requiresConfirmation = TRUE]
    ELSE [NoTokOut EXCEPT !.kind = "success", !.token = res.token]

\* searchTokenTool from the result of searchToken
SearchResult(sr) ==
    IF sr.kind = "thrown" THEN TokThrown(sr.error)
    ELSE IF Len(sr.tokens) = 0 THEN TokError("No tokens found")
    ELSE [NoTokOut EXCEPT !.kind = "success", !.count = Len(sr.tokens), !.tokens = sr.tokens]

\* validateInputTool
ValidateInputResult(inputType, ref, chainId) ==
    IF inputType = "token"
    THEN [NoTokOut EXCEPT !.kind = "validation", !.valid = validateTokenInput(ref)]
    ELSE IF inputType = "chain"
    THEN [NoTokOut EXCEPT !.kind = "validation", !.valid = validateChain(chainId)]
    ELSE TokError("Unknown input type")

\* the coins of a response that are among `failing`
FailingOf(coins, failing) == {coins[i] : i \in 1..Len(coins)} \cap failing

\* get_token_info is called; it runs to an early return or to its first request
GetTokenInfoCall ==
    /\ tok.pc = "idle"
    /\ \E ver \in ToolVersions, ref \in TokenRefs, cid \in ChainIdHints,
          cname \in ChainNameHints :
          LET in == [tok EXCEPT !.op = "get_token_info", !.version = ver, !.ref = ref,
                                !.chainId = cid, !.chainName = cname]
              branch == AddressBranch(cid, cname)
              resolved == ResolvedChainId(cid, cname)
          IN tok' =
               IF ~validateTokenInput(ref)
               THEN [in EXCEPT !.pc = "returned", !.out = TokError("Invalid token input")]
               ELSE IF ver = "limiting" /\ isAddress(ref) /\ cid = 0 /\ cname = ""
               THEN [in EXCEPT !.pc = "returned",
                        !.out = [TokError("Chain must be provided when using token address")
                                    EXCEPT !.requiresChain = TRUE]]
               ELSE IF isAddress(ref) /\ branch # "lookup"
               THEN [in EXCEPT !.pc = "returned", !.out = ToolCaught(TokThrown(branch))]
               ELSE IF isAddress(ref) /\ ~getChainById(resolved)
               THEN [in EXCEPT !.pc = "returned",
                        !.out = ToolCaught(TokenResult(ver, TRUE,
                                              getTokenByAddress(resolved, RetryIdle, 0)))]
               ELSE [in EXCEPT !.pc = "awaiting", !.requests = 1]
    /\ UNCHANGED <<retry, discoverVars, gen, conv, score>>

\* the provider requests of getTokenInfo settle; the tool returns
GetTokenInfoSettles ==
    /\ tok.pc = "awaiting" /\ tok.op = "get_token_info"
    /\ \E outs \in OutcomeSeqs, coins \in SearchResponses,
          failing \in SUBSET (1..MaxCoins), k \in 1..MaxCoins :
          LET r == retryWithBackoff(outs)
              failed == (r.pc = "thrown")
          IN tok' =
               IF isAddress(tok.ref)
               THEN [tok EXCEPT !.pc = "returned", !.searchFailed = failed,
                        !.out = ToolCaught(TokenResult(tok.version, TRUE,
                                   getTokenByAddress(ResolvedChainId(tok.chainId, tok.chainName),
                                                     r, k)))]
               ELSE [tok EXCEPT !.pc = "returned", !.searchFailed = failed,
                        !.coins = IF failed THEN << >> ELSE coins,
                        !.failing = IF failed THEN {} ELSE FailingOf(coins, failing),
                        !.requests = SearchRequests(r, coins),
                        !.out = ToolCaught(TokenResult(tok.version, FALSE,
                                   FromSearch(searchToken(r, coins, failing))))]
    /\ UNCHANGED <<retry, discoverVars, gen, conv, score>>

SearchTokenCall ==
    /\ tok.pc = "idle"
    /\ tok' = [tok EXCEPT !.op = "search_token", !.pc = "awaiting", !.requests = 1]
    /\ UNCHANGED <<retry, discoverVars, gen, conv, score>>

SearchTokenSettles ==
    /\ tok.pc = "awaiting" /\ tok.op = "search_token"
    /\ \E outs \in OutcomeSeqs, coins \in SearchResponses, failing \in SUBSET (1..MaxCoins) :
          LET r == retryWithBackoff(outs)
              failed == (r.pc = "thrown")
          IN tok' = [tok EXCEPT !.pc = "returned", !.searchFailed = failed,
                        !.coins = IF failed THEN << >> ELSE coins,
                        !.failing = IF failed THEN {} ELSE FailingOf(coins, failing),
                        !.requests = SearchRequests(r, coins),
                        !.out = ToolCaught(SearchResult(searchToken(r, coins, failing)))]
    /\ UNCHANGED <<retry, discoverVars, gen, conv, score>>

ValidateInputCall ==
    /\ tok.pc = "idle"
    /\ \E it \in InputTypes, ref \in TokenRefs, cid \in ChainIdInputs :
          tok' = [tok EXCEPT !.op = "validate_input", !.pc = "returned",
                             !.inputType = it, !.ref = ref, !.chainId = cid,
                             !.out = ToolCaught(ValidateInputResult(it, ref, cid))]
    /\ UNCHANGED <<retry, discoverVars, gen, conv, score>>

TokNext ==
    \/ GetTokenInfoCall
    \/ GetTokenInfoSettles
    \/ SearchTokenCall
    \/ SearchTokenSettles
    \/ ValidateInputCall

(***************************************************************************)
(* runYieldAgent (agent)                                                   *)
(***************************************************************************)
MaxQuestions == 3            \* questions handed to one runYieldAgent call
delayBetweenQuestionsMs == 500
DelayOptions == {0, delayBetweenQuestionsMs}

\* The agent behind processQuestion is the conversation machine of the
\* specification: from what it knows (the fields accepted so far) and one
\* message of the user it gives the next response.
Steps == <<"token_confirmation", "protocol_discovery", "amount_input", "transaction_ready">>

StepIndex(step) ==
    IF \E i \in 1..Len(Steps) : Steps[i] = step
    THEN CHOOSE i \in 1..Len(Steps) : Steps[i] = step
    ELSE 0                                  \* "none": no turn yet

NextStep(step) ==
    IF StepIndex(step) < Len(Steps) THEN Steps[StepIndex(step) + 1] ELSE step

FieldNames == {"token", "chain", "protocol", "amount", "address"}

\* a protocol name is <<identity, casing>>, like an address
NoName == <<"", "lower">>
RankedList == << <<"aave-v3", "lower">>, <<"lido", "lower">> >>

\* one message of the user: what it says of each field
NoSay == [token |-> "none", chain |-> "none", protocol |-> NoName,
          amount |-> << >>, address |-> "none"]

Say(token, chain, protocol, amount, address) ==
    [token |-> token, chain |-> chain, protocol |-> protocol,
     amount |-> amount, address |-> address]

Aave == <<"aave-v3", "lower">>
AAVE == <<"aave-v3", "upper">>
FakeProtocol == <<"fakeprotocol", "mixed">>

\* the messages of the test cases, alone and with the earlier messages of the
\* conversation put in front of them by the caller
Utterances ==
    { Say("known", "none", NoName, << >>, "none"),
      Say("none", "listed", NoName, << >>, "none"),
      Say("none", "none", Aave, << >>, "none"),
      Say("none", "none", FakeProtocol, << >>, "none"),
      Say("none", "none", NoName, <<100>>, "valid"),
      Say("none", "none", NoName, <<0>>, "valid"),
      Say("none", "none", NoName, <<100>>, "none"),
      Say("none", "none", NoName, << >>, "valid"),
      Say("known", "listed", NoName, << >>, "none"),
      Say("known", "listed", AAVE, << >>, "none"),
      Say("known", "listed", FakeProtocol, << >>, "none"),
      Say("known", "listed", Aave, <<100>>, "none"),
      Say("known", "listed", Aave, <<-1>>, "valid"),
      Say("known", "listed", Aave, <<100>>, "malformed"),
      Say("known", "unlisted", Aave, <<100>>, "valid"),
      Say("known", "listed", FakeProtocol, <<100>>, "valid"),
      Say("known", "listed", AAVE, <<100>>, "valid") }

Supplies(u) ==
    {f \in FieldNames :
        CASE f = "token" -> u.token # "none"
          [] f = "chain" -> u.chain # "none"
          [] f = "protocol" -> u.protocol # NoName
          [] f = "amount" -> u.amount # << >>
          [] f = "address" -> u.address # "none"}

\* quick mode: the five fields in one message
IsQuick(u) == Supplies(u) = FieldNames

\* matched without regard to case
Listed(name, list) == \E i \in 1..Len(list) : toLowerCase(list[i]) = toLowerCase(name)

\* the ranked list the agent holds once token and chain are known to it
ListHeld(known) == IF "chain" \in known THEN RankedList ELSE << >>

FieldValid(u, f, list) ==
    CASE f = "token" -> u.token = "known"
      [] f = "chain" -> u.chain = "listed"
      [] f = "protocol" -> Listed(u.protocol, list)
      [] f = "amount" -> validateAmount(u.amount[1], MaxBalancePlaceholder)
      [] f = "address" -> u.address = "valid"

FieldError(f) ==
    CASE f = "token" -> "Token not found"
      [] f = "chain" -> "Unsupported chain"
      [] f = "protocol" -> "Protocol not available"
      [] f = "amount" -> "Amount must be positive"
      [] f = "address" -> "Invalid address format"

Given(u, f, list) == f \in Supplies(u) /\ FieldValid(u, f, list)

\* interactive mode: a field is accepted when it is valid and the fields
\* before it are known; amount and address are kept whenever they are valid
Accepted(known, u) ==
    LET t == known \cup {f \in {"token"} : Given(u, f, << >>)}
        c == t \cup {f \in {"chain"} : "token" \in t /\ Given(u, f, << >>)}
        p == c \cup {f \in {"protocol"} : "chain" \in c /\ Given(u, f, ListHeld(c))}
    IN p \cup {f \in {"amount", "address"} : Given(u, f, << >>)}

\* a quick mode that does not look at the amount
AllFiveValidButAmount(u) == \A f \in FieldNames \ {"amount"} : FieldValid(u, f, RankedList)

\* quick mode: the five fields are validated together
AllFiveValid(u) == \A f \in FieldNames : FieldValid(u, f, RankedList)

StepOf(known) ==
    IF known = FieldNames THEN "transaction_ready"
    ELSE IF {"token", "chain", "protocol"} \subseteq known THEN "amount_input"
    ELSE IF {"token", "chain"} \subseteq known THEN "protocol_discovery"
    ELSE "token_confirmation"

\* what the response asks for
Missing(known) ==
    IF "token" \notin known THEN {"token"}
    ELSE IF "chain" \notin known THEN {"chain"}
    ELSE IF "protocol" \notin known THEN {"protocol"}
    ELSE FieldNames \ known

NoResponse == [step |-> "none", mode |-> "interactive", known |-> {}, errors |-> {},
               listed |-> << >>, asks |-> {}, bundle |-> FALSE, failed |-> FALSE]

\* one turn of the machine; `ok`: the provider requests of generate_transaction
\* succeed (it is called when the five fields are known)
AgentTurn(known, u, ok) ==
    LET k == IF IsQuick(u)
             THEN IF AllFiveValid(u) THEN FieldNames ELSE known
             ELSE Accepted(known, u)
        list == ListHeld(IF IsQuick(u) THEN FieldNames ELSE k)
        ready == k = FieldNames
    IN [step |-> IF ready /\ ~ok THEN "error" ELSE StepOf(k),
        mode |-> IF IsQuick(u) THEN "quick" ELSE "interactive",
        known |-> IF ready /\ ~ok THEN known ELSE k,
        errors |-> {FieldError(f) : f \in {g \in Supplies(u) : ~FieldValid(u, g, list)}},
        listed |-> IF "protocol" \in k THEN << >> ELSE ListHeld(k),
        asks |-> IF ready THEN {} ELSE Missing(k),
        bundle |-> ready /\ ok,
        failed |-> ready /\ ~ok]

\* processQuestion: the agent is invoked with the system prompt and this one
\* message, so it knows nothing of the earlier turns
NoKnown == {}

processQuestion(u, ok) == AgentTurn(NoKnown, u, ok)

\* results: one entry per response pushed.  Kept for the properties: threw
\* (the questions whose processing threw), told (the fields the user has
\* validly supplied in this conversation so far, carried forward), ranked (the
\* ranked list most recently returned), last and response (the latest turn).
NoConv == [pc |-> "idle", openaiKey |-> TRUE, n |-> 0, delayMs |-> 0, i |-> 0,
           results |-> << >>, delays |-> 0, thrown |-> "", threw |-> {},
           told |-> {}, ranked |-> << >>, last |-> NoSay, response |-> NoResponse]

\* a loop whose catch ends the run after reporting the error
AfterQuestionStopOnError(c, step) ==
    IF step = "error" THEN "returned"
    ELSE IF c.i < c.n /\ c.delayMs > 0 THEN "delaying"
    ELSE IF c.i < c.n THEN "processing"
    ELSE "returned"

\* where the loop goes once the response of question i is pushed: the delay
\* (not after the last question), the next question, or the return
AfterQuestion(c, step) ==
    IF c.i < c.n /\ c.delayMs > 0 THEN "delaying"
    ELSE IF c.i < c.n THEN "processing"
    ELSE "returned"

\* the index of the question `processing` works on after position pc is taken
NextIndex(c, pc) == IF pc = "processing" THEN c.i + 1 ELSE c.i

\* runYieldAgent is called: the environment check, then the first question
RunYieldAgent ==
    /\ conv.pc = "idle"
    /\ \E key \in BOOLEAN, n \in 0..MaxQuestions, d \in DelayOptions :
          LET in == [conv EXCEPT !.openaiKey = key, !.n = n, !.delayMs = d]
          IN conv' = IF ~key
                     THEN [in EXCEPT !.pc = "threw",
                              !.thrown = "OPENAI_API_KEY environment variable is required"]
                     ELSE IF n = 0 THEN [in EXCEPT !.pc = "returned"]
                     ELSE [in EXCEPT !.pc = "processing", !.i = 1]
    /\ UNCHANGED <<retry, discoverVars, gen, tok, score>>

\* processQuestion resolves: the agent's response is pushed
QuestionAnswered ==
    /\ conv.pc = "processing"
    /\ \E u \in Utterances, ok \in BOOLEAN :
          LET r == processQuestion(u, ok)
              pc == AfterQuestion(conv, r.step)
          IN conv' = [conv EXCEPT
                        !.results = Append(@, [question |-> conv.i, step |-> r.step,
                                               message |-> ""]),
                        !.last = u, !.response = r,
                        !.told = AgentTurn(@, u, TRUE).known,
                        !.ranked = IF r.listed # << >> THEN r.listed ELSE @,
                        !.pc = pc, !.i = NextIndex(conv, pc)]
    /\ UNCHANGED <<retry, discoverVars, gen, tok, score>>

\* processQuestion rejects: the catch pushes a response with step 'error'
QuestionThrows ==
    /\ conv.pc = "processing"
    /\ LET pc == AfterQuestion(conv, "error")
       IN conv' = [conv EXCEPT
                     !.results = Append(@, [question |-> conv.i, step |-> "error",
                                            message |-> "ERROR: agent.invoke rejected"]),
                     !.threw = @ \cup {conv.i},
                     !.last = NoSay, !.response = NoResponse,
                     !.pc = pc, !.i = NextIndex(conv, pc)]
    /\ UNCHANGED <<retry, discoverVars, gen, tok, score>>

\* the timer of the delay between two questions fires
DelayElapses ==
    /\ conv.pc = "delaying"
    /\ conv' = [conv EXCEPT !.pc = "processing", !.i = @ + 1, !.delays = @ + 1]
    /\ UNCHANGED <<retry, discoverVars, gen, tok, score>>

ConvNext == RunYieldAgent \/ QuestionAnswered \/ QuestionThrows \/ DelayElapses

(***************************************************************************)
(* Specifications                                                          *)
(***************************************************************************)
RetryInit ==
    /\ retry = RetryIdle
    /\ world = "empty" /\ ensoKey = TRUE
    /\ tool = NoTool /\ tasks = NoTasks /\ mc = NoMc
    /\ gen = NoGen
    /\ tok = NoTok /\ conv = NoConv /\ score = NoScore

SpecRetry == RetryInit /\ [][RetryNext]_vars

\* every call of fn settles and the helper's own steps are taken
SpecRetryFair ==
    RetryInit /\ [][RetryNext]_vars
        /\ WF_vars((RetryTest \/ RetryFnSettles \/ RetryTimer) /\ UNCHANGED <<discoverVars, gen, agentVars>>)

DiscoverInit ==
    /\ world \in Worlds
    /\ ensoKey \in BOOLEAN
    /\ tool = NoTool /\ tasks = NoTasks /\ mc = NoMc
    /\ retry = RetryIdle
    /\ gen = NoGen
    /\ tok = NoTok /\ conv = NoConv /\ score = NoScore

SpecDiscover == DiscoverInit /\ [][DiscoverNext]_vars

SpecDiscoverFair == DiscoverInit /\ [][DiscoverNext]_vars /\ WF_vars(MCReturn)

GenInit ==
    /\ world = "empty" /\ ensoKey \in BOOLEAN
    /\ tool = NoTool /\ tasks = NoTasks /\ mc = NoMc
    /\ retry = RetryIdle
    /\ gen = NoGen
    /\ tok = NoTok /\ conv = NoConv /\ score = NoScore

SpecBundle == GenInit /\ [][GenNext]_vars

\* evaluateProtocolSafety applied to pairs of protocols that differ in TVL alone
SafetyInit ==
    /\ world = "empty" /\ ensoKey = TRUE
    /\ tool = NoTool /\ tasks = NoTasks /\ mc = NoMc
    /\ retry = RetryIdle
    /\ gen = NoGen
    /\ tok = NoTok /\ conv = NoConv
    /\ score \in {[NoScore EXCEPT !.lower = a, !.higher = b, !.protocol = p] :
                     a \in TvlInputs, b \in TvlInputs, p \in ProtocolInputs}

SpecSafety == SafetyInit /\ [][EvaluateSafety]_vars

TokInit ==
    /\ world = "empty" /\ ensoKey = TRUE
    /\ tool = NoTool /\ tasks = NoTasks /\ mc = NoMc
    /\ retry = RetryIdle
    /\ gen = NoGen
    /\ tok = NoTok /\ conv = NoConv /\ score = NoScore

SpecToken == TokInit /\ [][TokNext]_vars

ConvInit ==
    /\ world = "empty" /\ ensoKey = TRUE
    /\ tool = NoTool /\ tasks = NoTasks /\ mc = NoMc
    /\ retry = RetryIdle
    /\ gen = NoGen
    /\ tok = NoTok /\ conv = NoConv /\ score = NoScore

SpecAgent == ConvInit /\ [][ConvNext]_vars

\* one call at a time of a tool or of runYieldAgent
Quiet == tool.pc = "idle" /\ gen.pc = "idle" /\ tok.pc = "idle" /\ conv.pc = "idle"

AgentToolsInit ==
    /\ world \in Worlds /\ ensoKey \in BOOLEAN
    /\ tool = NoTool /\ tasks = NoTasks /\ mc = NoMc
    /\ retry = RetryIdle
    /\ gen = NoGen
    /\ tok = NoTok /\ conv = NoConv /\ score = NoScore

AgentToolsNext ==
    \/ tool.pc # "idle" /\ DiscoverNext
    \/ gen.pc # "idle" /\ GenNext
    \/ tok.pc # "idle" /\ TokNext
    \/ conv.pc # "idle" /\ ConvNext
    \/ Quiet /\ (ToolCall \/ GenCall \/ GetTokenInfoCall \/ SearchTokenCall
                    \/ ValidateInputCall \/ RunYieldAgent)

SpecAgentTools == AgentToolsInit /\ [][AgentToolsNext]_vars

(***************************************************************************)
(* Properties                                                              *)
(***************************************************************************)
Settled(t) == t.status \in {"fulfilled", "rejected"}

VaultsOfChain(ps, c) == SelectSeq(ps, LAMBDA p : p.chainId = c)

\* C1: discoverProtocolsMultiChain never fails because chains failed: the
\* aggregate never rejects, and when it has returned, a chain whose
\* discoverProtocols call rejected contributes no vault while a chain whose
\* call succeeded contributes exactly the vaults that call returned.
C1_PartialFailuresAbsorbed ==
    /\ mc.pc # "threw"
    /\ mc.pc = "returned" =>
          \A c \in ChainIds :
             /\ Settled(tasks[c])
             /\ tasks[c].status = "rejected" => VaultsOfChain(mc.result, c) = << >>
             /\ tasks[c].status = "fulfilled" => VaultsOfChain(mc.result, c) = tasks[c].value

C1_Witness ==
    /\ mc.pc = "returned"
    /\ \E c \in ChainIds : tasks[c].status = "rejected" /\ tasks[c].queried
    /\ \E c \in ChainIds : tasks[c].status = "fulfilled" /\ tasks[c].value # << >>

\* C2: every supported chain has had its discoverProtocols call issued, once,
\* before the aggregate starts waiting; the aggregate has not returned while a
\* per-chain call is pending; and once every call has settled it returns.
C2_IssueAllThenAwaitAll ==
    /\ [](mc.pc = "awaiting" =>
            /\ mc.next = Len(SUPPORTED_CHAINS) + 1
            /\ \A c \in ChainIds : tasks[c].status # "unissued")
    /\ [](mc.pc \in {"returned", "threw"} => \A c \in ChainIds : Settled(tasks[c]))
    /\ ((mc.pc = "awaiting" /\ \A c \in ChainIds : Settled(tasks[c]))
          ~> (mc.pc = "returned"))

C2_Witness ==
    /\ mc.pc = "awaiting"
    /\ \E c \in ChainIds : tasks[c].status = "pending"
    /\ \E c \in ChainIds : tasks[c].status = "rejected"
    /\ \E c \in ChainIds : tasks[c].status = "fulfilled"

\* what discovery handed to the ranking step of the tool
Discovered == IF tool.multiChain THEN mc.result ELSE tasks[tool.chainId].value

Min(a, b) == IF a < b THEN a ELSE b

\* fewer than k protocols of ps have a strictly larger TVL than p
InTopByTvl(p, ps, k) == Cardinality({i \in 1..Len(ps) : ps[i].tvl > p.tvl}) < k

Truncated(out) ==
    /\ Len(out.protocols) = Min(Len(Discovered), maxProtocolsToReturn)
    /\ \A i \in 1..Len(out.protocols) :
          \E j \in 1..Len(Discovered) :
             /\ Discovered[j].address = out.protocols[i].address
             /\ Discovered[j].chainId = out.protocols[i].chainId
             /\ InTopByTvl(Discovered[j], Discovered, maxProtocolsToEvaluate)

\* C3: for a discovery result of N >= 1 protocols, discover_protocols returns
\* exactly min(N, 15) protocols, each among the top 20 of the result by TVL.
C3_TruncationInvariant ==
    (tool.pc = "returned" /\ tool.out.kind = "success") => Truncated(tool.out)

\* the same, for the definition of the tool that limits (tools, first copy)
LimitingToolTruncates ==
    (tool.pc = "returned" /\ tool.out.kind = "success" /\ tool.version = "limiting")
        => Truncated(tool.out)

LimitingToolTruncatesWitness ==
    /\ tool.pc = "returned" /\ tool.out.kind = "success" /\ tool.version = "limiting"
    /\ Len(Discovered) > maxProtocolsToEvaluate

\* C10: a malformed token address (the chain argument being acceptable) makes
\* no provider query and is reported to the caller as the address validation
\* error, in single-chain and in all-chains mode.
C10_MalformedAddressReported ==
    (/\ tool.pc = "returned"
     /\ ~tool.tokenValid
     /\ tool.multiChain \/ validateChain(tool.chainId))
        => /\ \A c \in ChainIds : ~tasks[c].queried
           /\ tool.out.kind = "error"
           /\ tool.out.cause = "Invalid token address"

\* C8: while every call fails with a rate-limit signal, the k-th delay is
\* initialDelay * 2^(k-1), each further call follows a delay, no more than
\* maxRetries calls are made (3 by default), the helper gives up only after
\* maxRetries calls and then throws the rate-limit failure.
AllRateLimited ==
    /\ retry.history # << >>
    /\ \A i \in 1..Len(retry.history) : retry.history[i] = "rateLimit"

C8_RateLimitBackoff ==
    AllRateLimited =>
       /\ \A i \in 1..Len(retry.delays) :
             retry.delays[i] = retry.initialDelay * Pow2(i - 1)
       /\ retry.calls <= retry.maxRetries
       /\ retry.maxRetries = DefaultMaxRetries => retry.calls <= 3
       /\ retry.pc = "calling" => Len(retry.delays) = retry.calls - 1
       /\ retry.pc # "returned"
       /\ retry.pc = "thrown" =>
             /\ retry.calls = retry.maxRetries
             /\ retry.thrown.kind = "rateLimit"

C8_Witness ==
    /\ retry.pc = "thrown"
    /\ retry.maxRetries = DefaultMaxRetries
    /\ retry.history = <<"rateLimit", "rateLimit", "rateLimit">>
    /\ retry.delays = <<1000, 2000>>

\* C9: a call that fails with a quota signal or another non-rate-limit error
\* is the last call made: no delay and no further call follows it.
NotRetryable == {"quota", "other"}

C9_OnlyRateLimitsRetried ==
    \A i \in 1..Len(retry.history) :
       retry.history[i] \in NotRetryable =>
          /\ retry.calls = i
          /\ Len(retry.delays) < i
          /\ retry.pc \in {"loop", "thrown"}

Returned == gen.pc = "returned" /\ gen.out.kind = "success"

Present(tx) == tx.type # "none"

\* C4: in every returned bundle with an approval transaction, executionOrder
\* starts with the approve step and the deposit step comes after it.
C4_ApprovalFirst ==
    (Returned /\ Present(gen.out.bundle.approvalTransaction)) =>
       LET order == gen.out.bundle.executionOrder
       IN /\ Len(order) >= 2
          /\ order[1] = "approve"
          /\ \E j \in 2..Len(order) : order[j] = "deposit"

C4_Witness ==
    /\ Returned
    /\ gen.out.bundle.approvalTransaction.type = "approve"

\* C5: a returned bundle has executionOrder = [approve, deposit] and carries
\* the approval transaction exactly when the approval check reported that
\* approval is needed and supplied a transaction; otherwise it is [deposit]
\* without an approval transaction. The deposit transaction is always there.
C5_OrderMatchesApprovalCheck ==
    Returned =>
       LET b == gen.out.bundle
           required == /\ gen.approvalCheck.approvalNeeded
                       /\ Present(gen.approvalCheck.approvalTransaction)
       IN /\ b.depositTransaction.type = "deposit"
          /\ required => /\ b.executionOrder = <<"approve", "deposit">>
                         /\ b.approvalTransaction = gen.approvalCheck.approvalTransaction
          /\ ~required => /\ b.executionOrder = <<"deposit">>
                          /\ ~Present(b.approvalTransaction)

C5_Witness ==
    /\ Returned
    /\ ~gen.approvalCheck.approvalNeeded
    /\ gen.approvalCheck.message = "Could not verify approval status"
    /\ gen.out.bundle.executionOrder = <<"deposit">>

\* the number a transaction's gas limit denotes (an empty limit counts as 0)
GasLimitValue(tx) == BigInt(tx.gasLimit)

\* C6 as stated: every returned bundle carries a total gas estimate equal to
\* the sum of the gas limits of the transactions it includes.
C6_TotalGasIsSumOfIncluded ==
    Returned =>
       LET b == gen.out.bundle
       IN /\ b.hasTotalGasEstimate
          /\ BigInt(b.totalGasEstimate) =
                IF Present(b.approvalTransaction)
                THEN GasLimitValue(b.approvalTransaction) + GasLimitValue(b.depositTransaction)
                ELSE GasLimitValue(b.depositTransaction)

\* C6 amended: a returned bundle that includes the approval transaction has
\* totalGasEstimate = approval gas limit + deposit gas limit; a bundle with
\* the deposit alone carries no total gas estimate.
C6_TotalGasOnlyWithApproval ==
    Returned =>
       LET b == gen.out.bundle
       IN IF Present(b.approvalTransaction)
          THEN /\ b.hasTotalGasEstimate
               /\ BigInt(b.totalGasEstimate) =
                     GasLimitValue(b.approvalTransaction) + GasLimitValue(b.depositTransaction)
          ELSE ~b.hasTotalGasEstimate

C6_Witness ==
    /\ Returned
    /\ Present(gen.out.bundle.approvalTransaction)
    /\ GasLimitValue(gen.out.bundle.approvalTransaction) > 0
    /\ GasLimitValue(gen.out.bundle.depositTransaction) > 0

Disclosed(tx) == Present(tx) => tx.safetyWarning # ""

\* C7: every transaction object (the approval transaction of the approval
\* check, the deposit transaction, both as carried by a bundle) has a
\* non-empty safetyWarning, and a tool result with a bundle has a warning;
\* an error result carries no transaction.
C7_DisclosureAlwaysPresent ==
    /\ Disclosed(gen.approvalCheck.approvalTransaction)
    /\ Disclosed(gen.depositTransaction)
    /\ Disclosed(gen.out.bundle.approvalTransaction)
    /\ Disclosed(gen.out.bundle.depositTransaction)
    /\ Returned => /\ gen.out.warning # ""
                   /\ gen.out.bundle.depositTransaction.safetyWarning # ""
    /\ gen.out.kind = "error" => /\ ~Present(gen.out.bundle.approvalTransaction)
                                 /\ ~Present(gen.out.bundle.depositTransaction)

C7_Witness ==
    /\ Returned
    /\ Present(gen.out.bundle.approvalTransaction)
    /\ Present(gen.out.bundle.depositTransaction)
    /\ gen.out.bundle.hasTotalGasEstimate

\* discovery completed and handed the tool an empty list
NoQualifyingVaults ==
    /\ tool.pc = "returned"
    /\ IF tool.multiChain
       THEN mc.pc = "returned" /\ mc.result = << >>
       ELSE /\ tool.chainId \in ChainIds
            /\ tasks[tool.chainId].status = "fulfilled"
            /\ tasks[tool.chainId].value = << >>

\* C14: when discovery yields no qualifying vault, in single-chain or in
\* all-chains mode, discover_protocols returns the structured "no protocols
\* found" result with its suggestion; the tool always returns a result (it
\* does not throw) and a success result never carries an empty list.
C14_NoProtocolsReported ==
    /\ NoQualifyingVaults =>
          /\ tool.out.kind = "error"
          /\ tool.out.error = "No staking protocols found"
          /\ tool.out.suggestion
          /\ tool.out.protocols = << >>
    /\ tool.pc = "returned" => tool.out.kind \in {"error", "success"}
    /\ (tool.pc = "returned" /\ tool.out.kind = "success") =>
          tool.out.protocols # << >> /\ tool.out.count > 0

\* a chain whose provider data is not empty but holds nothing that qualifies
C14_Witness ==
    /\ NoQualifyingVaults
    /\ ~tool.multiChain
    /\ ProviderData(world, tool.chainId) # << >>

\* APY > 0 and not the queried token, whatever the casing of either address
Qualifies(d) == ApyValue(d) > 0 /\ d.address[1] # TokenAddress[1]

\* C15: a discoverProtocols call that succeeds returns one vault for each
\* token of the provider's data that has APY > 0 and is not the queried token
\* (compared without regard to case), and nothing else; no returned vault has
\* APY 0 or absent or is the bare token; each carries the queried chain id.
C15_SingleChainFilter ==
    \A c \in ChainIds :
       tasks[c].status = "fulfilled" =>
          LET data == ProviderData(world, c)
              value == tasks[c].value
              wanted == {data[j].address : j \in {k \in 1..Len(data) : Qualifies(data[k])}}
          IN /\ {value[i].address : i \in 1..Len(value)} = wanted
             /\ Len(value) = Cardinality(wanted)
             /\ \A i \in 1..Len(value) :
                   /\ value[i].chainId = c
                   /\ value[i].apy > 0
                   /\ value[i].address[1] # TokenAddress[1]

\* single-chain mode on a chain that reports the bare token in another casing
\* and tokens without a positive APY next to real vaults
C15_Witness ==
    /\ tool.pc = "returned" /\ ~tool.multiChain /\ tool.chainId \in ChainIds
    /\ tasks[tool.chainId].status = "fulfilled"
    /\ tasks[tool.chainId].value # << >>
    /\ LET data == ProviderData(world, tool.chainId)
       IN /\ \E j \in 1..Len(data) : data[j].address[1] = TokenAddress[1]
                                       /\ data[j].address # TokenAddress
          /\ \E j \in 1..Len(data) : data[j].apy.type = "undefined"
          /\ \E j \in 1..Len(data) : data[j].apy.type = "string"

\* C17: when the approval request has failed on every attempt, the approval
\* check returns "not needed" together with the failure and the message
\* "Could not verify approval status"; the deposit request is still made, and
\* a bundle that is returned then holds the deposit alone: no approval
\* transaction, execution order [deposit].
C17_ApprovalIndeterminate ==
    gen.approvalThrown =>
       /\ gen.approvalCalls = DefaultMaxRetries
       /\ ~gen.approvalCheck.approvalNeeded
       /\ gen.approvalCheck.error = "Failed to check approval"
       /\ gen.approvalCheck.message = "Could not verify approval status"
       /\ gen.requests = <<"approval", "deposit">>
       /\ (gen.pc = "returned" /\ ~gen.depositThrown) =>
             /\ gen.out.kind = "success"
             /\ ~Present(gen.out.bundle.approvalTransaction)
             /\ Present(gen.out.bundle.depositTransaction)
             /\ gen.out.bundle.executionOrder = <<"deposit">>

C17_Witness ==
    /\ gen.approvalThrown
    /\ Returned
    /\ gen.out.bundle.depositTransaction = gen.depositTransaction

\* C18: when the deposit request has failed on every attempt, the tool returns
\* an error result that holds no bundle and no transaction, also when the
\* approval transaction had been obtained.
C18_DepositFailureFatal ==
    (gen.pc = "returned" /\ gen.depositThrown) =>
       /\ gen.depositCalls = DefaultMaxRetries
       /\ gen.out.kind = "error"
       /\ gen.out.error = "Failed to generate transaction"
       /\ gen.out.bundle = NoBundle
       /\ ~Present(gen.out.bundle.approvalTransaction)
       /\ ~Present(gen.out.bundle.depositTransaction)

C18_Witness ==
    /\ gen.pc = "returned" /\ gen.depositThrown
    /\ gen.approvalCheck.approvalNeeded
    /\ Present(gen.approvalCheck.approvalTransaction)

NoChainHint == tok.chainId = 0 /\ tok.chainName = ""

\* C11: get_token_info with a valid contract address and neither chain id nor
\* chain name returns at once with the "chain must be provided" error: the
\* result holds no token, no candidate list and no chain list, and no request
\* has been made of the metadata provider.
C11_ChainRequiredForAddress ==
    (tok.op = "get_token_info" /\ tok.ref = "address" /\ NoChainHint) =>
       /\ tok.pc = "returned"
       /\ tok.out.kind = "error"
       /\ tok.out.error = "Chain must be provided when using token address"
       /\ tok.out.token = NoToken
       /\ tok.out.tokens = << >>
       /\ tok.out.allChains = << >>
       /\ tok.requests = 0

\* the definition of the tool that has no check of its own: getTokenInfo throws
C11_Witness ==
    /\ tok.op = "get_token_info" /\ tok.ref = "address" /\ NoChainHint
    /\ tok.pc = "returned"
    /\ tok.version = "unlimited"
    /\ tok.out.caught

\* the coins of the search response (its first TopResults) whose details were
\* obtained and that have an address on a supported chain
IsMatch(k) == k \notin tok.failing /\ SupportedEntries(CoinPlatforms(k)) # << >>

Matches == SelectSeq(Slice(tok.coins, TopResults), IsMatch)

SymbolResolved ==
    /\ tok.op = "get_token_info" /\ tok.pc = "returned"
    /\ tok.ref = "symbol" /\ ~tok.searchFailed

\* C12: when the search request succeeds, get_token_info for a symbol or name
\* returns according to the number of matches and in no other way: none: the
\* "token not found" error that suggests a contract address; one: that token
\* alone; several: the list of all of them, in the provider's order.
C12_ThreeOutcomes ==
    SymbolResolved =>
       /\ Len(Matches) = 0 =>
             /\ tok.out.kind = "error"
             /\ tok.out.error = "Token not found"
             /\ tok.out.suggestsAddress
             /\ tok.out.token = NoToken /\ tok.out.tokens = << >>
       /\ Len(Matches) = 1 =>
             /\ tok.out.kind = "success"
             /\ tok.out.token.coin = Matches[1]
             /\ tok.out.tokens = << >>
       /\ Len(Matches) > 1 =>
             /\ tok.out.kind = "multipleMatches"
             /\ tok.out.token = NoToken
             /\ [i \in 1..Len(tok.out.tokens) |-> tok.out.tokens[i].coin] = Matches

C12_Witness ==
    /\ SymbolResolved
    /\ Len(Matches) > 1
    /\ Len(Matches) < Len(tok.coins)

\* a single token returned for a symbol or name given without a chain
SingleMatchNoHint ==
    /\ tok.op = "get_token_info" /\ tok.pc = "returned"
    /\ tok.ref = "symbol" /\ NoChainHint
    /\ tok.out.kind = "success"

\* the result names at least one chain of the token
ListsChains(out) == Len(out.allChains) >= 1 \/ Len(out.token.allChains) >= 1

\* C13: a symbol or name that resolves to one token, no chain having been
\* given, is answered with requiresConfirmation = true and at least one chain.
C13_SingleMatchAsksConfirmation ==
    SingleMatchNoHint => tok.out.requiresConfirmation /\ ListsChains(tok.out)

\* the same, for the definition of the tool that lists all chains (first copy)
FirstToolAsksConfirmation ==
    (SingleMatchNoHint /\ tok.version = "limiting") =>
        tok.out.requiresConfirmation /\ Len(tok.out.allChains) >= 1

FirstToolAsksConfirmationWitness ==
    SingleMatchNoHint /\ tok.version = "limiting" /\ Len(tok.out.allChains) > 1

ConvStep(c) == IF c.results = << >> THEN "none" ELSE c.results[Len(c.results)].step

\* C19: from one response to the next the step stays or moves one place along
\* token_confirmation, protocol_discovery, amount_input, transaction_ready, or
\* becomes error; and once it is error it stays error.
C19_StepOrderAndAbsorbingError ==
    [][LET s == ConvStep(conv)
           t == ConvStep(conv')
       IN /\ s = "error" => t = "error"
          /\ (s # "error" /\ t # s) => t \in {"error", NextStep(s)}]_vars

UnsupportedSelection == tool.chainId # 0 /\ ~validateChain(tool.chainId)

\* C20: with a chain selection that is not a supported chain, discover_protocols
\* starts no discovery (no discoverProtocols call is made for any chain) and
\* returns the chain validation error.
C20_NoDiscoveryOnUnsupportedChain ==
    (tool.pc # "idle" /\ UnsupportedSelection) =>
       /\ \A c \in ChainIds : tasks[c].status = "unissued"
       /\ tool.pc = "returned" => tool.out.kind = "error" /\ tool.out.error = "Invalid chain"

\* the same when the caller has set multiChain to false
SingleChainRejectsUnsupported ==
    (tool.pc # "idle" /\ UnsupportedSelection /\ ~tool.multiChain) =>
       /\ \A c \in ChainIds : tasks[c].status = "unissued"
       /\ tool.pc = "returned" => tool.out.kind = "error" /\ tool.out.error = "Invalid chain"

SingleChainRejectsUnsupportedWitness ==
    tool.pc = "returned" /\ UnsupportedSelection /\ ~tool.multiChain


Failed(o) == o # "ok"

\* what holds at every point of a retryWithBackoff call
RetrySequential ==
    /\ retry.calls = Len(retry.history) + (IF retry.pc = "calling" THEN 1 ELSE 0)
    /\ Len(retry.delays) <= Len(retry.history)
    /\ \A i \in 1..Len(retry.history) :
          ~Failed(retry.history[i]) =>
             /\ i = Len(retry.history)
             /\ retry.pc = "returned"
             /\ retry.result = i - 1
             /\ retry.calls = i
    /\ retry.pc = "returned" =>
          /\ retry.history # << >>
          /\ ~Failed(retry.history[Len(retry.history)])
    /\ retry.pc = "thrown" =>
          /\ retry.calls = retry.maxRetries
          /\ \A i \in 1..Len(retry.history) : Failed(retry.history[i])
          /\ retry.maxRetries > 0 =>
                /\ retry.thrown = [kind |-> retry.history[retry.maxRetries],
                                   at |-> retry.maxRetries - 1]
                /\ Len(retry.delays) = retry.maxRetries - 1
          /\ retry.maxRetries = 0 => retry.thrown = RetryFailed /\ retry.delays = << >>

\* C27: retryWithBackoff calls fn one call at a time; the first call that
\* succeeds is the last call made and its value is returned; when every call
\* fails, fn has been called exactly maxRetries times, the error thrown is
\* that of the last call, and one delay fewer than calls has been waited (none
\* after the last failure); and a call that has started returns or throws,
\* provided every call of fn settles.
C27_SequentialStopAtFirstSuccess ==
    /\ []RetrySequential
    /\ (retry.pc \in {"loop", "calling", "sleeping"}) ~> RetryDone(retry)

\* three failures of three kinds: the error thrown is the third
C27_Witness ==
    /\ retry.pc = "thrown"
    /\ retry.maxRetries = DefaultMaxRetries
    /\ retry.history = <<"rateLimit", "quota", "other">>
    /\ retry.thrown.kind = "other"
    /\ Len(retry.delays) = 2

InputsRejected ==
    /\ gen.pc # "idle"
    /\ gen.amount <= 0 \/ ~gen.userValid \/ ~gen.tokenValid \/ ~gen.protocolValid

\* C28: generate_transaction validates the amount and the format of the user,
\* token and protocol addresses before any provider request: a call with an
\* invalid amount or a malformed address returns an error without an approval
\* or a deposit request.  The approval request comes first and the deposit
\* request is issued only once the approval check has settled, so at most one
\* of the two is outstanding.
C28_ValidateThenApprovalThenDeposit ==
    /\ InputsRejected =>
          /\ gen.pc = "returned" /\ gen.out.kind = "error"
          /\ gen.requests = << >>
          /\ gen.approvalCalls = 0 /\ gen.depositCalls = 0
    /\ gen.requests \in {<< >>, <<"approval">>, <<"approval", "deposit">>}
    /\ gen.pc = "approval" => gen.requests = <<"approval">> /\ gen.approvalCheck = NoCheck
    /\ (\E i \in 1..Len(gen.requests) : gen.requests[i] = "deposit") =>
          /\ gen.pc \in {"deposit", "returned"}
          /\ gen.approvalCalls >= 1
          /\ gen.approvalCheck # NoCheck
    /\ gen.pc = "deposit" => gen.depositCalls = 0 /\ gen.depositTransaction = NoTx

\* a valid amount with a malformed token address
C28_Witness ==
    /\ gen.pc = "returned"
    /\ gen.amount > 0
    /\ gen.userValid /\ ~gen.tokenValid /\ gen.protocolValid
    /\ gen.requests = << >>
    /\ gen.out.kind = "error"

\* what the discoverProtocols call of chain c contributes, by its outcome alone
ChainContribution(c) ==
    IF tasks[c].status = "fulfilled" THEN FilterVaults(ProviderData(world, c), c) ELSE << >>

RECURSIVE InChainOrder(_)
InChainOrder(i) ==
    IF i > Len(SUPPORTED_CHAINS) THEN << >>
    ELSE ChainContribution(SUPPORTED_CHAINS[i]) \o InChainOrder(i + 1)

\* C30: the list discoverProtocolsMultiChain returns is the concatenation, in
\* the order of SUPPORTED_CHAINS, of what each chain's call returned (nothing
\* for a call that failed): it is determined by the per-chain outcomes, not by
\* the order in which the calls settled.
C30_ResultInChainOrder ==
    mc.pc = "returned" => mc.result = InChainOrder(1)

\* calls settled out of order, two chains contributed and one failed
C30_Witness ==
    /\ mc.pc = "returned" /\ mc.reordered
    /\ Cardinality({c \in ChainIds : tasks[c].value # << >>}) >= 2
    /\ \E c \in ChainIds : tasks[c].status = "rejected" /\ tasks[c].queried

\* p may stand before q in a ranked list
MayPrecede(p, q) ==
    \/ p.safetyScore > q.safetyScore
    \/ p.safetyScore = q.safetyScore /\ p.apy >= q.apy

\* C26: in the list discover_protocols returns, no protocol is preceded by one
\* with a lower safety score, or by one with the same safety score and a lower
\* APY.
C26_RankedBySafetyThenApy ==
    (tool.pc = "returned" /\ tool.out.kind = "success") =>
       \A i, j \in 1..Len(tool.out.protocols) :
          i < j => MayPrecede(tool.out.protocols[i], tool.out.protocols[j])

\* a list in which the tie-break decided and which is not in discovery order
C26_Witness ==
    /\ tool.pc = "returned" /\ tool.out.kind = "success"
    /\ LET ps == tool.out.protocols
       IN /\ \E i, j \in 1..Len(ps) : ps[i].safetyScore > ps[j].safetyScore
          /\ \E i, j \in 1..Len(ps) : /\ i < j
                                      /\ ps[i].safetyScore = ps[j].safetyScore
                                      /\ ps[i].apy > ps[j].apy
                                      /\ ps[i].tvl < ps[j].tvl

\* C25: of two protocols that differ in TVL alone, the one with the higher TVL
\* never has the lower safety score, and every score lies in 0..10.
C25_SafetyMonotoneInTvl ==
    score.pc = "scored" =>
       /\ score.lowerScore \in 0..10 /\ score.higherScore \in 0..10
       /\ score.lower <= score.higher => score.lowerScore <= score.higherScore
       /\ score.lower >= score.higher => score.lowerScore >= score.higherScore

\* a pair on either side of both tier boundaries
C25_Witness ==
    /\ score.pc = "scored"
    /\ score.lower < 10 /\ score.higher >= 100
    /\ score.lowerScore < score.higherScore

\* the latest question was answered by the agent
Answered == conv.response # NoResponse

\* C29: with OPENAI_API_KEY set, runYieldAgent never throws; its responses are
\* those of questions 1, 2, ... in that order, one each, and all n of them when
\* it returns; the response of a question whose processing threw has step
\* 'error' and the error message, and the questions after it are processed;
\* a delay is waited between two questions only: n - 1 delays in all (none
\* when the delay is 0), never one after the last question.
C29_OneResponsePerQuestion ==
    (conv.pc # "idle" /\ conv.openaiKey) =>
       /\ conv.pc # "threw"
       /\ Len(conv.results) <= conv.n
       /\ \A k \in 1..Len(conv.results) : conv.results[k].question = k
       /\ \A k \in conv.threw :
             /\ k \in 1..Len(conv.results)
             /\ conv.results[k].step = "error"
             /\ conv.results[k].message # ""
       /\ conv.pc = "delaying" => conv.i < conv.n /\ conv.delayMs > 0
       /\ conv.pc = "processing" =>
             conv.delays = IF conv.delayMs > 0 THEN conv.i - 1 ELSE 0
       /\ conv.pc = "returned" =>
             /\ Len(conv.results) = conv.n
             /\ conv.delays = IF conv.delayMs > 0 /\ conv.n > 0 THEN conv.n - 1 ELSE 0

\* the first question threw and the last one was answered
C29_Witness ==
    /\ conv.pc = "returned" /\ conv.n >= 3
    /\ 1 \in conv.threw
    /\ conv.results[conv.n].step # "error"
    /\ conv.delays = conv.n - 1

\* C21: a response moves from protocol_discovery to amount_input only for a
\* protocol that is in the ranked list most recently returned in the
\* conversation, whatever its casing; a selection of the interactive flow that
\* is not in that list is answered with the error "Protocol not available" and
\* that list, and the step is not amount_input or beyond.
C21_ProtocolFromRankedList ==
    [][(Len(conv'.results) = Len(conv.results) + 1 /\ conv'.response # NoResponse) =>
          LET u == conv'.last
              r == conv'.response
          IN /\ (ConvStep(conv) = "protocol_discovery" /\ r.step = "amount_input") =>
                   Listed(u.protocol, conv.ranked)
             /\ (conv.ranked # << >> /\ r.mode = "interactive" /\ u.protocol # NoName
                                     /\ ~Listed(u.protocol, conv.ranked)) =>
                   /\ "Protocol not available" \in r.errors
                   /\ r.listed = conv.ranked
                   /\ r.step \notin {"amount_input", "transaction_ready"}]_vars

\* C22: once token, chain and protocol have been supplied, a turn after which
\* only one of amount and user address has been supplied is answered at
\* amount_input, asks for the other one and keeps every field supplied so far;
\* a turn after which both have been supplied is answered at transaction_ready
\* (the provider requests succeeding).
C22_PartialInputRetained ==
    (Answered /\ ~conv.response.failed /\ {"token", "chain", "protocol"} \subseteq conv.told) =>
       LET r == conv.response
           given == conv.told \cap {"amount", "address"}
       IN /\ Cardinality(given) = 1 =>
                /\ r.step = "amount_input"
                /\ r.asks = {"amount", "address"} \ given
                /\ r.known = conv.told
          /\ Cardinality(given) = 2 => r.step = "transaction_ready"

NonPositive(amount) == amount # << >> /\ amount[1] <= 0

\* C23: generate_transaction with an amount of zero or less returns the
\* validation error "Amount must be positive" without an approval or deposit
\* request and without a transaction; a turn of the conversation that gives
\* such an amount is answered with that error, without a bundle, and not at
\* transaction_ready.
C23_NonPositiveAmountRejected ==
    /\ (gen.pc # "idle" /\ gen.amount <= 0) =>
          /\ gen.pc = "returned"
          /\ gen.out.kind = "error" /\ gen.out.error = "Amount must be positive"
          /\ gen.requests = << >>
          /\ gen.approvalCheck = NoCheck /\ gen.depositTransaction = NoTx
          /\ gen.out.bundle = NoBundle
    /\ (Answered /\ NonPositive(conv.last.amount)) =>
          /\ conv.response.step # "transaction_ready"
          /\ ~conv.response.bundle
          /\ "Amount must be positive" \in conv.response.errors
          /\ "amount" \notin conv.response.known

C23_Witness ==
    /\ gen.pc = "returned" /\ gen.amount = 0
    /\ gen.userValid /\ gen.tokenValid /\ gen.protocolValid /\ ensoKey
    /\ gen.out.error = "Amount must be positive"

\* a message with the five fields, each of them valid
FiveValid(u) ==
    /\ u.token = "known" /\ u.chain = "listed" /\ u.address = "valid"
    /\ \E i \in 1..Len(RankedList) : RankedList[i][1] = u.protocol[1]
    /\ u.amount # << >> /\ u.amount[1] > 0

====
